---- MODULE Spec2Model ----
(***************************************************************************)
(* Model of the targeted patch engine, gui/code_patcher.py (CodePatcher),  *)
(* and of its caller preview_ai_changes in gui/preview_panel.py.           *)
(*                                                                         *)
(* Text is modelled at the granularity the code's regular expressions and  *)
(* line operations observe: a string is a sequence of lines, a line is an  *)
(* indentation (count of leading blanks), a sequence of tokens and a line  *)
(* terminator ("\n", "\r\n" or "" for an unterminated last line).          *)
(***************************************************************************)
EXTENDS Integers, Sequences, FiniteSets, TLC

(***************************************************************************)
(* Bounds of the model.                                                    *)
(***************************************************************************)
MaxCalls == 2
MaxClock == 1

(***************************************************************************)
(* Tokens.  k is the kind of the token:                                    *)
(*   "w"     a word that no pattern of the patcher looks at (s its text)   *)
(*   "sp"    a run of a blanks inside or at the end of a line              *)
(*   "def"   the characters "def s(" and the rest of a function header     *)
(*   "class" the characters "class s:"                                     *)
(*   "fence" three backticks followed by the language tag s                *)
(*   "pat"   the instruction phrase of pattern number p of                 *)
(*           _extract_context, with captured name s or numbers a, b        *)
(***************************************************************************)
Tok(k, s, p, a, b) == [k |-> k, s |-> s, p |-> p, a |-> a, b |-> b]
W(s) == Tok("w", s, 0, 0, 0)
SP(n) == Tok("sp", "", 0, n, 0)
Def(name) == Tok("def", name, 0, 0, 0)
Cls(name) == Tok("class", name, 0, 0, 0)
Fence(lang) == Tok("fence", lang, 0, 0, 0)
Pat(p, s, a, b) == Tok("pat", s, p, a, b)

Line(ind, toks, e) == [ind |-> ind, toks |-> toks, e |-> e]
L(ind, toks) == Line(ind, toks, "\n")

Last(s) == s[Len(s)]
Front(s) == SubSeq(s, 1, Len(s) - 1)

(***************************************************************************)
(* Strings.  A string is a sequence of lines in which only the last line   *)
(* may lack a terminator and no line is the empty line without terminator. *)
(***************************************************************************)
EmptyLine(l) == l.ind = 0 /\ l.toks = <<>> /\ l.e = ""

\* the characters of l1 (which has no terminator) followed by those of l2
JoinLines(l1, l2) ==
    IF l1.toks = <<>>
    THEN Line(l1.ind + l2.ind, l2.toks, l2.e)
    ELSE Line(l1.ind,
              l1.toks \o (IF l2.ind > 0 THEN <<SP(l2.ind)>> ELSE <<>>) \o l2.toks,
              l2.e)

\* string concatenation, s1 + s2
Cat(s1, s2) ==
    IF s1 = <<>> THEN s2
    ELSE IF s2 = <<>> THEN s1
    ELSE IF Last(s1).e # "" THEN s1 \o s2
    ELSE Front(s1) \o <<JoinLines(Last(s1), Head(s2))>> \o Tail(s2)

RECURSIVE Concat(_)
\* ''.join(lines): what f.writelines(lines) hands to the file
Concat(lines) ==
    IF lines = <<>> THEN <<>> ELSE Cat(Head(lines), Concat(Tail(lines)))

RECURSIVE StripSP(_)
StripSP(toks) ==
    IF toks = <<>> THEN <<>>
    ELSE IF Last(toks).k = "sp" THEN StripSP(Front(toks))
    ELSE toks

RECURSIVE rstrip(_)
\* str.rstrip(): drops trailing blanks and line terminators
rstrip(s) ==
    IF s = <<>> THEN <<>>
    ELSE IF Last(s).toks = <<>> THEN rstrip(Front(s))
    ELSE Front(s) \o <<Line(Last(s).ind, StripSP(Last(s).toks), "")>>

\* s + '\n' for a string s that ends without a terminator
AppendNL(s) ==
    IF s = <<>> THEN <<L(0, <<>>)>>
    ELSE Front(s) \o <<Line(Last(s).ind, Last(s).toks, "\n")>>

\* str.splitlines(True): one element per line, terminators kept
splitlines(s) == [i \in 1..Len(s) |-> <<s[i]>>]

\* str.strip() == ''
IsBlank(s) == \A i \in 1..Len(s) : s[i].toks = <<>>

TermLen(e) == IF e = "" THEN 0 ELSE IF e = "\n" THEN 1 ELSE 2

RECURSIVE LeadWS(_)
\* len(line) - len(line.lstrip()) for a string that is not blank
LeadWS(s) ==
    IF s = <<>> THEN 0
    ELSE IF Head(s).toks = <<>>
         THEN Head(s).ind + TermLen(Head(s).e) + LeadWS(Tail(s))
         ELSE Head(s).ind

RECURSIVE FirstTok(_)
\* the first token after the leading whitespace of a string (W("") if none)
FirstTok(s) ==
    IF s = <<>> THEN W("")
    ELSE IF Head(s).toks = <<>> THEN FirstTok(Tail(s))
    ELSE Head(Head(s).toks)

(***************************************************************************)
(* _extract_code_blocks: re.finditer(r'```(\w+)?\n(.*?)\n```', DOTALL).    *)
(***************************************************************************)
\* the language tag consists of word characters only, so (\w+)? takes it whole
WordTag(s) == s # "c++"

\* a line that ends in three backticks, an optional tag of word characters
\* and a newline: where a match of the pattern can begin
IsOpen(l) ==
    /\ l.toks # <<>>
    /\ Last(l.toks).k = "fence"
    /\ WordTag(Last(l.toks).s)
    /\ l.e = "\n"

\* a line that begins with three backticks: where "\n```" ends a match
IsClose(l) == l.ind = 0 /\ l.toks # <<>> /\ Head(l.toks).k = "fence"

RECURSIVE FirstClose(_, _)
\* the first line at or after j that closes a match, 0 if there is none
FirstClose(text, j) ==
    IF j > Len(text) THEN 0
    ELSE IF IsClose(text[j]) THEN j
    ELSE FirstClose(text, j + 1)

\* group(2): the lines between the fences without the last newline
GroupCode(s) ==
    LET l == Line(Last(s).ind, Last(s).toks, "")
    IN  IF EmptyLine(l) THEN Front(s) ELSE Front(s) \o <<l>>

RECURSIVE ScanBlocks(_, _)
\* the matches found from line i on; the text between "```tag\n" and "\n```"
\* holds at least one line, so the closing fence is at line i + 2 or later
ScanBlocks(text, i) ==
    IF i > Len(text) THEN <<>>
    ELSE IF IsOpen(text[i]) /\ FirstClose(text, i + 2) # 0
    THEN LET j == FirstClose(text, i + 2)
             tag == Last(text[i].toks).s
         IN  <<[language |-> IF tag = "" THEN "text" ELSE tag,
                code |-> GroupCode(SubSeq(text, i + 1, j - 1))]>>
             \o ScanBlocks(text, j + 1)
    ELSE ScanBlocks(text, i + 1)

extract_code_blocks(text) == ScanBlocks(text, 1)

(***************************************************************************)
(* _extract_context: the pattern list, tried in the order of the list;     *)
(* re.search takes the first match of a pattern in the whole text.         *)
(*    1 replace function   2 update function   3 function .. should be     *)
(*    4 change line        5 update line       6 line .. should be         *)
(*    7 replace lines a-b  8 update lines a-b                              *)
(*    9 add (after) line  10 insert (after) line                           *)
(*   11 replace method    12 update class                                  *)
(***************************************************************************)
NumPatterns == 12
\* the tests the code makes on the pattern's own text
PatHasLine(p) == p \in {4, 5, 6, 7, 8, 9, 10}
PatHasFunctionOrMethod(p) == p \in {1, 2, 3, 11}
PatHasClass(p) == p = 12
PatHasAddOrInsert(p) == p \in {9, 10}
\* '-' in match.group(0): only the range patterns match a text with a dash
MatchHasDash(p) == p \in {7, 8}

NoContext == [type |-> "none", s |-> "", a |-> 0, b |-> 0]

LineMatches(l, p) == \E k \in 1..Len(l.toks) : l.toks[k].k = "pat" /\ l.toks[k].p = p

\* re.search(pattern p, text): the leftmost match, as its token, or W("")
Search(text, p) ==
    IF \E i \in 1..Len(text) : LineMatches(text[i], p)
    THEN LET i == CHOOSE i \in 1..Len(text) :
                    /\ LineMatches(text[i], p)
                    /\ \A j \in 1..(i - 1) : ~LineMatches(text[j], p)
             k == CHOOSE k \in 1..Len(text[i].toks) :
                    /\ text[i].toks[k].k = "pat" /\ text[i].toks[k].p = p
                    /\ \A m \in 1..(k - 1) :
                          ~(text[i].toks[m].k = "pat" /\ text[i].toks[m].p = p)
         IN  text[i].toks[k]
    ELSE W("")

\* the dictionary returned for a match m of pattern p
ContextOf(p, m) ==
    IF PatHasLine(p)
    THEN IF MatchHasDash(p)
         THEN [type |-> "block_replace", s |-> "", a |-> m.a, b |-> m.b]
         ELSE [type |-> "line_replace", s |-> "", a |-> m.a, b |-> 0]
    ELSE IF PatHasFunctionOrMethod(p)
    THEN [type |-> "function_replace", s |-> m.s, a |-> 0, b |-> 0]
    ELSE IF PatHasClass(p)
    THEN [type |-> "class_replace", s |-> m.s, a |-> 0, b |-> 0]
    ELSE IF PatHasAddOrInsert(p)
    THEN [type |-> "insert_after", s |-> "", a |-> m.a, b |-> 0]
    ELSE NoContext

\* the patterns in the order function and method, class, line, lines, insert
KindOrder == <<1, 2, 3, 11, 12, 4, 5, 6, 7, 8, 9, 10>>
RECURSIVE ContextFromKind(_, _)
\* a variant that tries the patterns in that order, from the k-th on
ContextFromKind(text, k) ==
    IF k > NumPatterns THEN NoContext
    ELSE IF Search(text, KindOrder[k]).k = "pat"
    THEN ContextOf(KindOrder[k], Search(text, KindOrder[k]))
    ELSE ContextFromKind(text, k + 1)

RECURSIVE ContextFrom(_, _)
ContextFrom(text, p) ==
    IF p > NumPatterns THEN NoContext
    ELSE IF Search(text, p).k = "pat" /\ ContextOf(p, Search(text, p)) # NoContext
    THEN ContextOf(p, Search(text, p))
    ELSE ContextFrom(text, p + 1)

\* a variant that takes a block without any instruction for a change of line 1
extract_context_default(text, block) ==
    IF ContextFrom(text, 1) = NoContext
    THEN [type |-> "line_replace", s |-> "", a |-> 1, b |-> 0]
    ELSE ContextFrom(text, 1)

extract_context(text, block) == ContextFrom(text, 1)

(***************************************************************************)
(* _parse_ai_suggestions: one change per block for which a context exists. *)
(***************************************************************************)
\* a variant that makes a change of the first block only
ChangesOfFirst(text, blocks) ==
    IF blocks = <<>> \/ extract_context(text, Head(blocks)) = NoContext THEN <<>>
    ELSE LET context == extract_context(text, Head(blocks))
         IN  <<[type |-> context.type, s |-> context.s,
                a |-> context.a, b |-> context.b,
                new_code |-> Head(blocks).code,
                language |-> Head(blocks).language]>>

RECURSIVE ChangesOf(_, _)
ChangesOf(text, blocks) ==
    IF blocks = <<>> THEN <<>>
    ELSE LET context == extract_context(text, Head(blocks))
         IN  (IF context # NoContext
              THEN <<[type |-> context.type, s |-> context.s,
                      a |-> context.a, b |-> context.b,
                      new_code |-> Head(blocks).code,
                      language |-> Head(blocks).language]>>
              ELSE <<>>)
             \o ChangesOf(text, Tail(blocks))

parse_ai_suggestions(text) == ChangesOf(text, extract_code_blocks(text))

(***************************************************************************)
(* The single-change steps.  lines is the buffer: a sequence of strings.   *)
(* Each returns the dictionary of the code: success, error, new_lines and  *)
(* the 0-based start_line and end_line (-1 where the code sets none).      *)
(***************************************************************************)
Failure(error, lines) ==
    [success |-> FALSE, error |-> error, new_lines |-> lines,
     start_line |-> -1, end_line |-> -1]
Success(start, end, new_lines) ==
    [success |-> TRUE, error |-> "", new_lines |-> new_lines,
     start_line |-> start, end_line |-> end]

\* re.match(rf'\s*def\s+{function_name}\s*\(', line)
IsDefHeader(line, function_name) ==
    FirstTok(line).k = "def" /\ FirstTok(line).s = function_name

\* re.match(rf'\s*class\s+{class_name}\s*[\(:]', line)
IsClassHeader(line, class_name) ==
    FirstTok(line).k = "class" /\ FirstTok(line).s = class_name

\* lines[lo..hi] in the 1-based indices of the model (empty if lo > hi)
Slice(lines, lo, hi) == IF lo > hi THEN <<>> ELSE SubSeq(lines, lo, hi)

\* a variant in which a blank line ends the function as well
replace_function_blank_ends(lines, function_name, new_code) ==
    IF ~\E i \in 1..Len(lines) : IsDefHeader(lines[i], function_name)
    THEN Failure("Function not found", lines)
    ELSE LET start == CHOOSE i \in 1..Len(lines) :
                         /\ IsDefHeader(lines[i], function_name)
                         /\ \A j \in 1..(i - 1) : ~IsDefHeader(lines[j], function_name)
             indent_level == LeadWS(lines[start])
             Ends == {i \in (start + 1)..Len(lines) :
                         IsBlank(lines[i]) \/ LeadWS(lines[i]) <= indent_level}
             end == IF Ends = {} THEN Len(lines) + 1
                    ELSE CHOOSE i \in Ends : \A j \in Ends : i <= j
         IN  Success(start - 1, end - 1,
                     Slice(lines, 1, start - 1) \o splitlines(new_code)
                         \o Slice(lines, end, Len(lines)))

replace_function(lines, function_name, new_code) ==
    IF ~\E i \in 1..Len(lines) : IsDefHeader(lines[i], function_name)
    THEN Failure("Function not found", lines)
    ELSE LET start == CHOOSE i \in 1..Len(lines) :
                         /\ IsDefHeader(lines[i], function_name)
                         /\ \A j \in 1..(i - 1) : ~IsDefHeader(lines[j], function_name)
             indent_level == LeadWS(lines[start])
             Ends == {i \in (start + 1)..Len(lines) :
                         ~IsBlank(lines[i]) /\ LeadWS(lines[i]) <= indent_level}
             end == IF Ends = {} THEN Len(lines) + 1
                    ELSE CHOOSE i \in Ends : \A j \in Ends : i <= j
         IN  Success(start - 1, end - 1,
                     Slice(lines, 1, start - 1) \o splitlines(new_code)
                         \o Slice(lines, end, Len(lines)))

\* a variant that replaces the lowest class of that name, not the topmost
replace_class_lowest(lines, class_name, new_code) ==
    IF ~\E i \in 1..Len(lines) : IsClassHeader(lines[i], class_name)
    THEN Failure("Class not found", lines)
    ELSE LET start == CHOOSE i \in 1..Len(lines) :
                         /\ IsClassHeader(lines[i], class_name)
                         /\ \A j \in (i + 1)..Len(lines) : ~IsClassHeader(lines[j], class_name)
             indent_level == LeadWS(lines[start])
             Ends == {i \in (start + 1)..Len(lines) :
                         ~IsBlank(lines[i]) /\ LeadWS(lines[i]) <= indent_level}
             end == IF Ends = {} THEN Len(lines) + 1
                    ELSE CHOOSE i \in Ends : \A j \in Ends : i <= j
         IN  Success(start - 1, end - 1,
                     Slice(lines, 1, start - 1) \o splitlines(new_code)
                         \o Slice(lines, end, Len(lines)))

replace_class(lines, class_name, new_code) ==
    IF ~\E i \in 1..Len(lines) : IsClassHeader(lines[i], class_name)
    THEN Failure("Class not found", lines)
    ELSE LET start == CHOOSE i \in 1..Len(lines) :
                         /\ IsClassHeader(lines[i], class_name)
                         /\ \A j \in 1..(i - 1) : ~IsClassHeader(lines[j], class_name)
             indent_level == LeadWS(lines[start])
             Ends == {i \in (start + 1)..Len(lines) :
                         ~IsBlank(lines[i]) /\ LeadWS(lines[i]) <= indent_level}
             end == IF Ends = {} THEN Len(lines) + 1
                    ELSE CHOOSE i \in Ends : \A j \in Ends : i <= j
         IN  Success(start - 1, end - 1,
                     Slice(lines, 1, start - 1) \o splitlines(new_code)
                         \o Slice(lines, end, Len(lines)))

\* a variant whose range check lets line 0 through
replace_line_from_zero(lines, line_number, new_code) ==
    IF line_number < 0 \/ line_number > Len(lines)
    THEN Failure("Line out of range", lines)
    ELSE Success(line_number - 1, line_number,
                 [i \in 1..Len(lines) |->
                     IF i = line_number \/ (line_number = 0 /\ i = Len(lines))
                     THEN AppendNL(rstrip(new_code)) ELSE lines[i]])

\* a variant that appends the newline to the code as it is
replace_line_raw(lines, line_number, new_code) ==
    IF line_number < 1 \/ line_number > Len(lines)
    THEN Failure("Line out of range", lines)
    ELSE Success(line_number - 1, line_number,
                 [lines EXCEPT ![line_number] = AppendNL(new_code)])

replace_line(lines, line_number, new_code) ==
    IF line_number < 1 \/ line_number > Len(lines)
    THEN Failure("Line out of range", lines)
    ELSE Success(line_number - 1, line_number,
                 [lines EXCEPT ![line_number] = AppendNL(rstrip(new_code))])

\* a variant that keeps the last line of the range
replace_block_keep_end(lines, start, end, new_code) ==
    IF start < 1 \/ end > Len(lines) \/ start > end
    THEN Failure("Invalid line range", lines)
    ELSE Success(start - 1, end,
                 Slice(lines, 1, start - 1) \o splitlines(new_code)
                     \o Slice(lines, end, Len(lines)))

replace_block(lines, start, end, new_code) ==
    IF start < 1 \/ end > Len(lines) \/ start > end
    THEN Failure("Invalid line range", lines)
    ELSE Success(start - 1, end,
                 Slice(lines, 1, start - 1) \o splitlines(new_code)
                     \o Slice(lines, end + 1, Len(lines)))

\* a variant that takes line 0 for the place before the first line
insert_after_line_from_zero(lines, line_number, new_code) ==
    IF line_number < 0 \/ line_number > Len(lines)
    THEN Failure("Line out of range", lines)
    ELSE Success(line_number, line_number,
                 Slice(lines, 1, line_number) \o splitlines(new_code)
                     \o Slice(lines, line_number + 1, Len(lines)))

insert_after_line(lines, line_number, new_code) ==
    IF line_number < 1 \/ line_number > Len(lines)
    THEN Failure("Line out of range", lines)
    ELSE Success(line_number, line_number,
                 Slice(lines, 1, line_number) \o splitlines(new_code)
                     \o Slice(lines, line_number + 1, Len(lines)))

\* _apply_single_change: the dispatch on change['type']
apply_single_change(lines, change) ==
    IF change.type = "function_replace"
    THEN replace_function(lines, change.s, change.new_code)
    ELSE IF change.type = "line_replace"
    THEN replace_line(lines, change.a, change.new_code)
    ELSE IF change.type = "block_replace"
    THEN replace_block(lines, change.a, change.b, change.new_code)
    ELSE IF change.type = "insert_after"
    THEN insert_after_line(lines, change.a, change.new_code)
    ELSE IF change.type = "class_replace"
    THEN replace_class(lines, change.s, change.new_code)
    ELSE Failure("Unknown change type", lines)

(***************************************************************************)
(* The file system.  A file has its content (a string as the bytes hold    *)
(* it, so with the terminators "\n" or "\r\n" of the file), its access     *)
(* mode ("rw", "ro" read-only, "none" unreadable) and enc: whether its     *)
(* bytes decode as UTF-8 ("utf8") or not ("bad").                          *)
(***************************************************************************)
File(data, perm, enc) == [exists |-> TRUE, data |-> data, perm |-> perm, enc |-> enc]
NoFile == [exists |-> FALSE, data |-> <<>>, perm |-> "rw", enc |-> "utf8"]

Path(dir, stem, ts, suffix) == [dir |-> dir, stem |-> stem, ts |-> ts, suffix |-> suffix]
NoPath == Path("", "", 0, "")
\* self.backup_dir = Path(".code_analyzer_backups")
backup_dir == ".code_analyzer_backups"
TargetPaths == {Path("a", "m", 0, ".py"), Path("b", "m", 0, ".py")}
\* backup_name = f"{file_path.stem}_{timestamp}{file_path.suffix}"
backup_name(file_path, timestamp) ==
    Path(backup_dir, file_path.stem, timestamp, file_path.suffix)
BackupPaths == {backup_name(f, t) : f \in TargetPaths, t \in 0..MaxClock}
Paths == TargetPaths \cup BackupPaths

\* open(path, 'r') succeeds
CanOpenRead(f, path) == f[path].exists /\ f[path].perm # "none"
\* open(path, 'w') succeeds: the file is writable, or absent and then created
CanOpenWrite(f, path) == ~f[path].exists \/ f[path].perm = "rw"

\* text-mode read (newline=None): "\r\n" is translated to "\n"
ReadText(data) ==
    [i \in 1..Len(data) |->
        Line(data[i].ind, data[i].toks, IF data[i].e = "" THEN "" ELSE "\n")]
\* text-mode write (newline=None): "\n" is translated to os.linesep
WriteText(s, sep) ==
    [i \in 1..Len(s) |->
        Line(s[i].ind, s[i].toks, IF s[i].e = "\n" THEN sep ELSE s[i].e)]
\* f.readlines(): the translated content, one element per line
readlines(data) == splitlines(ReadText(data))

\* open(path, 'w'): creates the file or truncates it, keeping its mode
OpenW(f, path) ==
    [f EXCEPT ![path] = File(<<>>, IF @.exists THEN @.perm ELSE "rw", "utf8")]
\* the number of characters of a word or name of the model
StrLen(s) ==
    IF s = "" THEN 0
    ELSE IF s \in {"a", "b", "c", "f", "g", "p", "q", "r", "x", "y", "z", "C"} THEN 1
    ELSE IF s \in {"ff", "CC"} THEN 2
    ELSE IF s = "pass" THEN 4
    ELSE IF s = "hello" THEN 5
    ELSE IF s = "return" THEN 6
    ELSE IF s = "return 1" THEN 8
    ELSE 3
\* the number of characters of a token: a word, blanks, "def f():",
\* "class C:", a fence with its tag, a phrase, the rest of a line
TokLen(t) ==
    IF t.k = "w" THEN StrLen(t.s)
    ELSE IF t.k = "sp" THEN t.a
    ELSE IF t.k = "def" THEN 7 + StrLen(t.s)
    ELSE IF t.k = "class" THEN 7 + StrLen(t.s)
    ELSE IF t.k = "fence" THEN 3 + StrLen(t.s)
    ELSE IF t.k = "rest" THEN t.a
    ELSE 16
RECURSIVE ToksLen(_)
ToksLen(toks) == IF toks = <<>> THEN 0 ELSE TokLen(Head(toks)) + ToksLen(Tail(toks))
LineLen(l) == l.ind + ToksLen(l.toks) + TermLen(l.e)
RECURSIVE Bytes(_)
\* the length of a string
Bytes(s) == IF s = <<>> THEN 0 ELSE LineLen(Head(s)) + Bytes(Tail(s))

\* the last characters of line l, from offset n on (0 < n < LineLen(l))
RestOfLine(l, n) ==
    LET left == LineLen(l) - n IN
    IF left <= TermLen(l.e)
    THEN Line(0, <<>>, IF left = TermLen(l.e) THEN l.e ELSE "\n")
    ELSE Line(0, <<Tok("rest", "", 0, left - TermLen(l.e), 0)>>, l.e)

RECURSIVE DropBytes(_, _)
\* s[n:], the string s without its first n characters
DropBytes(s, n) ==
    IF n = 0 \/ s = <<>> THEN s
    ELSE IF LineLen(Head(s)) <= n THEN DropBytes(Tail(s), n - LineLen(Head(s)))
    ELSE <<RestOfLine(Head(s), n)>> \o Tail(s)

\* the content of a file that holds old after new has been written at
\* offset 0, where a file opened with 'w' is written
Overlay(old, new) ==
    IF Bytes(new) >= Bytes(old) THEN new
    ELSE Cat(new, DropBytes(old, Bytes(new)))

\* the content of an open file after write(s) and close: the file was
\* truncated when it was opened, and holds what was written to it since
PutData(f, path, s, sep) ==
    [f EXCEPT ![path].data = Overlay(@, WriteText(s, sep))]

(***************************************************************************)
(* The inputs of the model: the files the engine is called on and the      *)
(* suggestion texts it is given.                                           *)
(***************************************************************************)
FenceLine == L(0, <<Fence("")>>)
Block(code) == <<FenceLine>> \o code \o <<FenceLine>>
Code(words) == [i \in 1..Len(words) |-> L(0, <<W(words[i])>>)]

\* ["def f():\n", "    pass\n", "\n", "def g():\n", "    pass\n"]
DataFG == <<L(0, <<Def("f")>>), L(4, <<W("pass")>>), L(0, <<>>),
            L(0, <<Def("g")>>), L(4, <<W("pass")>>)>>
DataABC == Code(<<"a", "b", "c">>)
DataCRLF == <<Line(0, <<W("a")>>, "\r\n"), Line(0, <<W("b")>>, "\r\n")>>
DataNoEOL == <<L(0, <<W("a")>>), Line(0, <<W("b")>>, "")>>
DataBytes == <<Line(0, <<W("\\xff")>>, "")>>

InitFilesA ==
    {NoFile,
     File(DataFG, "rw", "utf8"),
     File(DataABC, "rw", "utf8"),
     File(DataCRLF, "rw", "utf8"),
     File(DataNoEOL, "rw", "utf8"),
     File(DataABC, "ro", "utf8"),
     File(DataABC, "none", "utf8"),
     File(DataBytes, "rw", "bad")}
InitFilesB == {File(DataABC, "rw", "utf8")}

Prose == L(0, <<W("Looks"), W("fine")>>)
Phrase(p, s, a, b) == L(0, <<Pat(p, s, a, b)>>)
\* "def f():\n    return 1"
CodeF == <<L(0, <<Def("f")>>), L(4, <<W("return 1")>>)>>

Texts ==
    {<<Prose>>,
     \* a block that no instruction phrase goes with
     <<Prose>> \o Block(Code(<<"hello">>)),
     \* "Change line 2 to:\n```\nhello\n```"
     <<Phrase(4, "", 2, 0)>> \o Block(Code(<<"hello">>)),
     \* a line number no file of the model has
     <<Phrase(5, "", 9, 0)>> \o Block(Code(<<"x">>)) \o Block(Code(<<"y">>)),
     \* "Replace the function f with:" and its code
     <<Phrase(1, "f", 0, 0)>> \o Block(CodeF),
     \* "Replace lines 2-3 with:" and two blocks
     <<Phrase(7, "", 2, 3)>> \o Block(Code(<<"p">>)) \o <<Prose>>
         \o Block(Code(<<"q", "r">>)),
     \* an opening fence that is never closed
     <<Phrase(4, "", 1, 0), FenceLine, L(0, <<W("hello")>>)>>}

(***************************************************************************)
(* The state.                                                              *)
(*   fs       the files, by path                                           *)
(*   clock    the wall clock second datetime.now() reads                   *)
(*   linesep  os.linesep of the platform                                   *)
(*   proc     per invocation thread: the position in the code, the         *)
(*            arguments and locals of the running call, its result and a   *)
(*            record of what the call did                                  *)
(*   ncalls   the number of calls made                                     *)
(*   returned the backup paths returned so far                             *)
(***************************************************************************)
VARIABLES fs, clock, linesep, proc, ncalls, returned
vars == <<fs, clock, linesep, proc, ncalls, returned>>

Procs == {1, 2}

Result(success, changes_applied, backup_path, error) ==
    [success |-> success, changes_applied |-> changes_applied,
     backup_path |-> backup_path, error |-> error]
\* error None is the empty string of the model
NoResult == Result(FALSE, <<>>, NoPath, "")

IdleProc ==
    [pc |-> "idle", file_path |-> NoPath, ai_suggestions |-> <<>>,
     backup_path |-> NoPath, code_blocks |-> <<>>, changes |-> <<>>, idx |-> 0,
     original_lines |-> <<>>, modified_lines |-> <<>>, applied_changes |-> <<>>,
     result |-> NoResult,
     \* restore_backup: its arguments and return value
     r_backup |-> NoPath, r_target |-> NoPath, r_ok |-> FALSE,
     \* the two files as they were when restore_backup was called
     r_pre_backup |-> NoFile, r_pre_target |-> NoFile,
     \* the record of the call: the file as it was when the call began, the
     \* result of every change processed, whether a backup file was created
     \* and completely written, how often file_path was opened for writing
     \* and written, how often it was opened for reading after the backup
     \* step, and whether an exception was raised
     pre |-> NoFile, outcomes |-> <<>>, bk_created |-> FALSE, bk_done |-> FALSE,
     wopens |-> 0, writes |-> 0, ropens |-> 0, exc |-> FALSE,
     \* preview_ai_changes: what it reported, the lines it read, the buffer
     \* it built, and the file as it was then
     pv_report |-> "", pv_original |-> <<>>, pv_modified |-> <<>>,
     pv_pre |-> NoFile]

Init ==
    /\ \E fa \in InitFilesA, fb \in InitFilesB :
          fs = [q \in Paths |->
                   IF q = Path("a", "m", 0, ".py") THEN fa
                   ELSE IF q = Path("b", "m", 0, ".py") THEN fb
                   ELSE NoFile]
    /\ clock = 0
    /\ linesep \in {"\n", "\r\n"}
    /\ proc = [p \in Procs |-> IdleProc]
    /\ ncalls = 0
    /\ returned = {}

AtRest(p) == proc[p].pc \in {"idle", "done", "restored", "raised"}

(***************************************************************************)
(* apply_targeted_changes, one action per step of the code.                *)
(***************************************************************************)
\* as InTry, had the write of the file been left outside the try statement
InTryNotWrite(step) == step # "write"

\* the steps of the body that the try statement encloses (all of them)
InTry(step) == TRUE

\* an exception raised in a step: the handler returns the failure dictionary,
\* and an exception raised outside the try statement reaches the caller
Raise(r, step) ==
    IF InTry(step)
    THEN [r EXCEPT !.pc = "done", !.exc = TRUE,
                   !.result = Result(FALSE, <<>>, NoPath, "Error applying changes")]
    ELSE [r EXCEPT !.pc = "raised", !.exc = TRUE]

\* a return statement of apply_targeted_changes
Return(r, result) == [r EXCEPT !.pc = "done", !.result = result]

\* the backup paths a caller has been handed
Handed(ret, r) ==
    IF r.pc = "done" /\ r.result.backup_path # NoPath
    THEN ret \cup {r.result.backup_path} ELSE ret

\* the caller invokes apply_targeted_changes(file_path, ai_suggestions)
Call(p, file_path, ai_suggestions) ==
    /\ AtRest(p)
    /\ ncalls < MaxCalls
    /\ ncalls' = ncalls + 1
    /\ proc' = [proc EXCEPT ![p] =
                  [IdleProc EXCEPT !.pc = "backup_open_src",
                                   !.file_path = file_path,
                                   !.ai_suggestions = ai_suggestions,
                                   !.pre = fs[file_path]]]
    /\ UNCHANGED <<fs, clock, linesep, returned>>

\* a second passes before the call reads the clock
Tick ==
    /\ clock < MaxClock
    /\ \E p \in Procs : proc[p].pc = "backup_open_src"
    /\ clock' = clock + 1
    /\ UNCHANGED <<fs, linesep, proc, ncalls, returned>>

\* _create_backup: the timestamp, the backup path, open(file_path, 'r')
BackupOpenSrc(p) ==
    LET r == proc[p] IN
    /\ r.pc = "backup_open_src"
    /\ LET r2 == IF CanOpenRead(fs, r.file_path)
                 THEN [r EXCEPT !.pc = "backup_open_dst",
                                !.backup_path = backup_name(r.file_path, clock)]
                 ELSE Raise(r, "backup")
       IN  /\ proc' = [proc EXCEPT ![p] = r2]
           /\ returned' = Handed(returned, r2)
    /\ UNCHANGED <<fs, clock, linesep, ncalls>>

\* _create_backup: open(backup_path, 'w')
BackupOpenDst(p) ==
    LET r == proc[p] IN
    /\ r.pc = "backup_open_dst"
    /\ fs' = OpenW(fs, r.backup_path)
    /\ proc' = [proc EXCEPT ![p] = [r EXCEPT !.pc = "backup_copy", !.bk_created = TRUE]]
    /\ UNCHANGED <<clock, linesep, ncalls, returned>>

\* _create_backup: dst.write(src.read()), and both files are closed
BackupCopy(p) ==
    LET r == proc[p] IN
    /\ r.pc = "backup_copy"
    /\ IF fs[r.file_path].enc = "bad"
       THEN /\ proc' = [proc EXCEPT ![p] = Raise(r, "backup")]
            /\ fs' = fs
       ELSE /\ fs' = PutData(fs, r.backup_path, ReadText(fs[r.file_path].data), linesep)
            /\ proc' = [proc EXCEPT ![p] = [r EXCEPT !.pc = "parse", !.bk_done = TRUE]]
    /\ returned' = Handed(returned, proc'[p])
    /\ UNCHANGED <<clock, linesep, ncalls>>

\* changes = self._parse_ai_suggestions(ai_suggestions); if not changes: return
Parse(p) ==
    LET r == proc[p]
        changes == parse_ai_suggestions(r.ai_suggestions)
        code_blocks == extract_code_blocks(r.ai_suggestions)
    IN
    /\ r.pc = "parse"
    /\ proc' = [proc EXCEPT ![p] =
                  IF changes = <<>>
                  THEN Return([r EXCEPT !.code_blocks = code_blocks],
                              Result(FALSE, <<>>, r.backup_path,
                                     "No valid changes found in AI suggestions"))
                  ELSE [r EXCEPT !.pc = "read", !.changes = changes,
                                 !.code_blocks = code_blocks]]
    /\ returned' = Handed(returned, proc'[p])
    /\ UNCHANGED <<fs, clock, linesep, ncalls>>

\* original_lines = f.readlines(); modified_lines = original_lines.copy()
ReadOriginal(p) ==
    LET r == proc[p] IN
    /\ r.pc = "read"
    /\ proc' = [proc EXCEPT ![p] =
                  IF CanOpenRead(fs, r.file_path) /\ fs[r.file_path].enc # "bad"
                  THEN [r EXCEPT !.pc = "apply", !.idx = 1, !.ropens = @ + 1,
                                 !.original_lines = readlines(fs[r.file_path].data),
                                 !.modified_lines = readlines(fs[r.file_path].data)]
                  ELSE Raise(r, "read")]
    /\ returned' = Handed(returned, proc'[p])
    /\ UNCHANGED <<fs, clock, linesep, ncalls>>

\* as Accumulate, had the result been appended whether or not it succeeded
AccumulateAll(applied_changes, result) == Append(applied_changes, result)

\* if result['success']: applied_changes.append(result)
Accumulate(applied_changes, result) ==
    IF result.success THEN Append(applied_changes, result) ELSE applied_changes

\* a variant that hands every change the buffer as it was read
NextBufferKeep(modified_lines, result) == modified_lines

\* if result['success']: modified_lines = result['new_lines']
NextBuffer(modified_lines, result) ==
    IF result.success THEN result.new_lines ELSE modified_lines

\* as NextChange, had the loop been left at the first change that fails
NextChangeBreak(idx, changes, result) ==
    IF result.success THEN idx + 1 ELSE Len(changes) + 1

\* for change in changes: the index of the change processed after this one
NextChange(idx, changes, result) == idx + 1

\* the change with its line numbers moved by d
Renumbered(change, d) == [change EXCEPT !.a = @ + d, !.b = @ + d]
\* a variant of the iteration that renumbers the changes still to come when
\* a change has altered the length of the buffer
ApplyChangeRenumber(p) ==
    LET r == proc[p] IN
    /\ r.pc = "apply"
    /\ r.idx <= Len(r.changes)
    /\ LET result == apply_single_change(r.modified_lines, r.changes[r.idx])
           next == NextChange(r.idx, r.changes, result)
           d == Len(NextBuffer(r.modified_lines, result)) - Len(r.modified_lines)
       IN  proc' = [proc EXCEPT ![p] =
                      [r EXCEPT !.applied_changes = Accumulate(@, result),
                                !.modified_lines = NextBuffer(@, result),
                                !.outcomes = Append(@, result),
                                !.changes = [i \in 1..Len(r.changes) |->
                                               IF i > r.idx THEN Renumbered(r.changes[i], d)
                                               ELSE r.changes[i]],
                                !.idx = next,
                                !.pc = IF next > Len(r.changes) THEN "open_w" ELSE "apply"]]
    /\ UNCHANGED <<fs, clock, linesep, ncalls, returned>>

\* one iteration of the loop over changes
ApplyChange(p) ==
    LET r == proc[p] IN
    /\ r.pc = "apply"
    /\ r.idx <= Len(r.changes)
    /\ LET result == apply_single_change(r.modified_lines, r.changes[r.idx])
           next == NextChange(r.idx, r.changes, result)
       IN  proc' = [proc EXCEPT ![p] =
                      [r EXCEPT !.applied_changes = Accumulate(@, result),
                                !.modified_lines = NextBuffer(@, result),
                                !.outcomes = Append(@, result),
                                !.idx = next,
                                !.pc = IF next > Len(r.changes) THEN "open_w" ELSE "apply"]]
    /\ UNCHANGED <<fs, clock, linesep, ncalls, returned>>

\* with open(file_path, 'w', encoding='utf-8') as f
OpenWrite(p) ==
    LET r == proc[p] IN
    /\ r.pc = "open_w"
    /\ IF CanOpenWrite(fs, r.file_path)
       THEN /\ fs' = OpenW(fs, r.file_path)
            /\ proc' = [proc EXCEPT ![p] = [r EXCEPT !.pc = "write", !.wopens = @ + 1]]
       ELSE /\ fs' = fs
            /\ proc' = [proc EXCEPT ![p] = Raise(r, "write")]
    /\ returned' = Handed(returned, proc'[p])
    /\ UNCHANGED <<clock, linesep, ncalls>>

\* f.writelines(modified_lines), the file is closed, and the call returns
WriteLines(p) ==
    LET r == proc[p] IN
    /\ r.pc = "write"
    /\ fs' = PutData(fs, r.file_path, Concat(r.modified_lines), linesep)
    /\ proc' = [proc EXCEPT ![p] =
                  Return([r EXCEPT !.writes = @ + 1],
                         Result(TRUE, r.applied_changes, r.backup_path, ""))]
    /\ returned' = Handed(returned, proc'[p])
    /\ UNCHANGED <<clock, linesep, ncalls>>

\* f.writelines(modified_lines) fails (the device is full, the medium fails):
\* the lines written before the failure stay in the file
WriteFails(p) ==
    LET r == proc[p] IN
    /\ r.pc = "write"
    /\ \E k \in 0..(Len(r.modified_lines) - 1) :
          fs' = PutData(fs, r.file_path, Concat(SubSeq(r.modified_lines, 1, k)), linesep)
    /\ proc' = [proc EXCEPT ![p] = Raise(r, "write")]
    /\ returned' = Handed(returned, proc'[p])
    /\ UNCHANGED <<clock, linesep, ncalls>>

(***************************************************************************)
(* restore_backup(backup_path, target_path).                               *)
(***************************************************************************)
\* as RestoreFiles, had the backup been moved to the target and not copied
RestoreFilesMove(f, backup_path, target_path, sep) ==
    IF ~CanOpenRead(f, backup_path) \/ ~CanOpenWrite(f, target_path)
       \/ f[backup_path].enc = "bad" \/ backup_path = target_path
    THEN f
    ELSE [PutData(OpenW(f, target_path), target_path, ReadText(f[backup_path].data), sep)
             EXCEPT ![backup_path] = NoFile]

\* the files after the call
RestoreFiles(f, backup_path, target_path, sep) ==
    IF ~CanOpenRead(f, backup_path) \/ ~CanOpenWrite(f, target_path)
    THEN f
    ELSE IF OpenW(f, target_path)[backup_path].enc = "bad"
    THEN OpenW(f, target_path)
    ELSE PutData(OpenW(f, target_path), target_path,
                 ReadText(OpenW(f, target_path)[backup_path].data), sep)

\* the value returned
RestoreOk(f, backup_path, target_path) ==
    /\ CanOpenRead(f, backup_path)
    /\ CanOpenWrite(f, target_path)
    /\ OpenW(f, target_path)[backup_path].enc # "bad"

RestoreBackup(p, backup_path, target_path) ==
    /\ AtRest(p)
    /\ ncalls < MaxCalls
    /\ ncalls' = ncalls + 1
    /\ fs' = RestoreFiles(fs, backup_path, target_path, linesep)
    /\ proc' = [proc EXCEPT ![p] =
                  [proc[p] EXCEPT !.pc = "restored",
                                  !.r_backup = backup_path,
                                  !.r_target = target_path,
                                  !.r_pre_backup = fs[backup_path],
                                  !.r_pre_target = fs[target_path],
                                  !.r_ok = RestoreOk(fs, backup_path, target_path)]]
    /\ UNCHANGED <<clock, linesep, returned>>

Step(p) ==
    \/ \E f \in TargetPaths, t \in Texts : Call(p, f, t)
    \/ BackupOpenSrc(p)
    \/ BackupOpenDst(p)
    \/ BackupCopy(p)
    \/ Parse(p)
    \/ ReadOriginal(p)
    \/ ApplyChange(p)
    \/ OpenWrite(p)
    \/ WriteLines(p)
    \/ WriteFails(p)
    \/ \E b \in Paths, t \in TargetPaths : RestoreBackup(p, b, t)

\* the engine used by one thread, as the repository's callers use it
Next == Step(1) \/ Tick
Spec == Init /\ [][Next]_vars

(***************************************************************************)
(* One session, on a wider range of files and suggestion texts: every      *)
(* phrase of the pattern set with line numbers from 0 to MaxLineNo and the *)
(* names f, g and C, two phrases in one text, several blocks, and fences   *)
(* that the pattern of _extract_code_blocks does not match.                *)
(***************************************************************************)
MaxLineNo == 4

\* ["class C:\n", "    def f(self):\n", "        pass\n", "  \n",
\*  "    def g(self):\n", "        pass\n", "z\n"]
DataClass == <<L(0, <<Cls("C")>>), L(4, <<Def("f")>>), L(8, <<W("pass")>>),
               L(2, <<>>), L(4, <<Def("g")>>), L(8, <<W("pass")>>),
               L(0, <<W("z")>>)>>
\* ["a\n", "def f():\n", "    pass\n", "\n"]
DataTail == <<L(0, <<W("a")>>), L(0, <<Def("f")>>), L(4, <<W("pass")>>), L(0, <<>>)>>

WideFiles ==
    {File(d, "rw", "utf8") : d \in {DataFG, DataABC, DataClass, DataTail, DataNoEOL}}

Names == {"f", "g", "C"}
LineNos == 0..MaxLineNo

\* "hello", "hello  ", "x\ny", "x\n" and "def f():\n    return 1" between fences
Codes ==
    {Code(<<"hello">>),
     <<L(0, <<W("hello"), SP(2)>>)>>,
     Code(<<"x", "y">>),
     <<L(0, <<W("x")>>), L(0, <<>>)>>,
     CodeF}

\* a phrase that pattern p matches, with the name f or C, line 2 or lines 2-3
PhraseFor(p) ==
    IF p \in {1, 2, 3, 11} THEN Phrase(p, "f", 0, 0)
    ELSE IF p = 12 THEN Phrase(p, "C", 0, 0)
    ELSE IF p \in {7, 8} THEN Phrase(p, "", 2, 3)
    ELSE Phrase(p, "", 2, 0)

TaggedBlock(lang, code) == <<L(0, <<Fence(lang)>>)>> \o code \o <<FenceLine>>

WideTexts ==
    \* one phrase with a line number, one block
    {<<Phrase(p, "", n, 0)>> \o Block(c) : p \in {4, 5, 6, 9, 10}, n \in LineNos, c \in Codes}
    \* one phrase with a range of lines, one block
    \cup {<<Phrase(p, "", a, b)>> \o Block(c) :
             p \in {7, 8}, a \in LineNos, b \in LineNos, c \in {Code(<<"hello">>), Code(<<"x", "y">>)}}
    \* one phrase with a name, one block
    \cup {<<Phrase(p, n, 0, 0)>> \o Block(c) :
             p \in {1, 2, 3, 11, 12}, n \in Names, c \in {Code(<<"hello">>), CodeF}}
    \* two phrases of different patterns, one block
    \cup {<<PhraseFor(pq[1]), PhraseFor(pq[2])>> \o Block(Code(<<"hello">>)) :
             pq \in {x \in (1..NumPatterns) \X (1..NumPatterns) : x[1] # x[2]}}
    \* several blocks, with and without a phrase
    \cup {ph \o Block(Code(<<"hello">>)) \o <<Prose>> \o Block(Code(<<"x", "y">>)) \o tl :
             ph \in {<<>>, <<Phrase(4, "", 2, 0)>>, <<Phrase(10, "", 1, 0)>>,
                     <<Phrase(7, "", 2, 3)>>, <<Phrase(1, "f", 0, 0)>>},
             tl \in {<<>>, Block(CodeF)}}
    \* fences: a tag that is a word, a tag that is not, an empty block, an
    \* empty block before a block, no closing fence, an indented closing fence
    \cup {<<Phrase(4, "", 2, 0)>> \o tl :
             tl \in {TaggedBlock("python", Code(<<"hello">>)),
                     TaggedBlock("c++", Code(<<"hello">>)),
                     <<FenceLine, FenceLine>>,
                     <<FenceLine, FenceLine, Prose>> \o Block(Code(<<"hello">>)),
                     <<FenceLine, L(0, <<W("hello")>>)>>,
                     <<FenceLine, L(0, <<W("hello")>>), L(2, <<Fence("")>>)>>}}
    \cup {<<Prose>>}

InitOne ==
    /\ \E fa \in WideFiles, fb \in InitFilesB :
          fs = [q \in Paths |->
                   IF q = Path("a", "m", 0, ".py") THEN fa
                   ELSE IF q = Path("b", "m", 0, ".py") THEN fb
                   ELSE NoFile]
    /\ clock = 0
    /\ linesep \in {"\n", "\r\n"}
    /\ proc = [p \in Procs |-> IdleProc]
    /\ ncalls = 0
    /\ returned = {}

\* the first call of the engine
CallOne == \E f \in TargetPaths, t \in WideTexts : ncalls = 0 /\ Call(1, f, t)

NextOne ==
    \/ CallOne
    \/ Tick
    \/ BackupOpenSrc(1)
    \/ BackupOpenDst(1)
    \/ BackupCopy(1)
    \/ Parse(1)
    \/ ReadOriginal(1)
    \/ ApplyChange(1)
    \/ OpenWrite(1)
    \/ WriteLines(1)
    \/ WriteFails(1)
SpecOne == InitOne /\ [][NextOne]_vars

(***************************************************************************)
(* _apply_single_change called on a buffer and a change of any of the five *)
(* types, as the callers of the engine may call it: the insertion, which   *)
(* no suggestion text resolves to, and the replacements by name on buffers *)
(* with headers of longer names and with several headers of one name.      *)
(***************************************************************************)
\* ["def ff():\n", "    pass\n", "class CC:\n", "    pass\n"]
DataLong == <<L(0, <<Def("ff")>>), L(4, <<W("pass")>>),
              L(0, <<Cls("CC")>>), L(4, <<W("pass")>>)>>
\* ["def f():\n", "    pass\n", "def f():\n", "    return\n",
\*  "class C:\n", "    x\n", "\n", "class C:\n", "    y\n"]
DataTwice == <<L(0, <<Def("f")>>), L(4, <<W("pass")>>),
               L(0, <<Def("f")>>), L(4, <<W("return")>>),
               L(0, <<Cls("C")>>), L(4, <<W("x")>>), L(0, <<>>),
               L(0, <<Cls("C")>>), L(4, <<W("y")>>)>>

Buffers ==
    {<<>>} \cup {readlines(d) : d \in {DataABC, DataFG, DataClass, DataTail,
                                       DataLong, DataTwice}}

\* the codes: "hello", "x\ny\n", "x\ny"
NewCodes == {<<Line(0, <<W("hello")>>, "")>>,
             Code(<<"x", "y">>),
             <<L(0, <<W("x")>>), Line(0, <<W("y")>>, "")>>}

Change(type, s, a, b, new_code) ==
    [type |-> type, s |-> s, a |-> a, b |-> b, new_code |-> new_code,
     language |-> "text"]

SingleChanges ==
    {Change(t, "", n, 0, c) : t \in {"line_replace", "insert_after"},
                              n \in LineNos, c \in NewCodes}
    \cup {Change("block_replace", "", ab[1], ab[2], c) :
             ab \in LineNos \X LineNos, c \in NewCodes}
    \cup {Change(t, n, 0, 0, c) : t \in {"function_replace", "class_replace"},
                                  n \in Names, c \in NewCodes}
    \cup {Change("rename", "f", 0, 0, c) : c \in NewCodes}

\* result = self._apply_single_change(lines, change)
ApplySingle(p, lines, change) ==
    /\ proc[p].pc = "idle"
    /\ proc' = [proc EXCEPT ![p] =
                  [IdleProc EXCEPT !.pc = "applied",
                                   !.changes = <<change>>,
                                   !.original_lines = lines,
                                   !.outcomes = <<apply_single_change(lines, change)>>]]
    /\ UNCHANGED <<fs, clock, linesep, ncalls, returned>>

NextSingle == \E lines \in Buffers, change \in SingleChanges : ApplySingle(1, lines, change)
SpecSingle == Init /\ [][NextSingle]_vars

(***************************************************************************)
(* preview_ai_changes on the file and the response the panel holds, and    *)
(* apply_ai_suggestions on the same file and response after it.            *)
(***************************************************************************)
RECURSIVE PreviewLoop(_, _, _)
\* the loop of preview_ai_changes from change k on: the buffer and the
\* results of the changes that succeeded
PreviewLoop(changes, k, st) ==
    IF k > Len(changes) THEN st
    ELSE LET result == apply_single_change(st.modified_lines, changes[k])
         IN  PreviewLoop(changes, k + 1,
                         [modified_lines |-> NextBuffer(st.modified_lines, result),
                          applied_changes |-> Accumulate(st.applied_changes, result)])

\* the handler of the Preview Changes button
Preview(p, file_path, ai_suggestions) ==
    /\ proc[p].pc = "idle"
    /\ LET r == [proc[p] EXCEPT !.pc = "previewed", !.file_path = file_path,
                                !.ai_suggestions = ai_suggestions,
                                !.pv_pre = fs[file_path]]
           original_lines == readlines(fs[file_path].data)
           changes == parse_ai_suggestions(ai_suggestions)
           st == PreviewLoop(changes, 1, [modified_lines |-> original_lines,
                                          applied_changes |-> <<>>])
       IN  proc' = [proc EXCEPT ![p] =
                      IF ~CanOpenRead(fs, file_path) \/ fs[file_path].enc = "bad"
                      THEN [r EXCEPT !.pv_report = "Error previewing changes"]
                      ELSE IF changes = <<>>
                      THEN [r EXCEPT !.pv_report = "No valid changes found in AI suggestions",
                                     !.pv_original = original_lines]
                      ELSE IF st.applied_changes # <<>>
                      THEN [r EXCEPT !.pv_report = "diff",
                                     !.pv_original = original_lines,
                                     !.pv_modified = st.modified_lines]
                      ELSE [r EXCEPT !.pv_report = "No changes could be applied",
                                     !.pv_original = original_lines,
                                     !.pv_modified = st.modified_lines]]
    /\ UNCHANGED <<fs, clock, linesep, ncalls, returned>>

\* the handler of the Apply button, on the file and response just previewed
ApplyPreviewed(p) ==
    /\ proc[p].pc = "previewed"
    /\ ncalls < MaxCalls
    /\ ncalls' = ncalls + 1
    /\ proc' = [proc EXCEPT ![p] =
                  [proc[p] EXCEPT !.pc = "backup_open_src",
                                  !.pre = fs[proc[p].file_path]]]
    /\ UNCHANGED <<fs, clock, linesep, returned>>

NextPreview ==
    \/ \E f \in TargetPaths, t \in Texts : Preview(1, f, t)
    \/ ApplyPreviewed(1)
    \/ Tick
    \/ BackupOpenSrc(1)
    \/ BackupOpenDst(1)
    \/ BackupCopy(1)
    \/ Parse(1)
    \/ ReadOriginal(1)
    \/ ApplyChange(1)
    \/ OpenWrite(1)
    \/ WriteLines(1)
    \/ WriteFails(1)
SpecPreview == Init /\ [][NextPreview]_vars

(***************************************************************************)
(* Two invocations at the same time, each of one call, on the same file or *)
(* on two files of the same name in different directories: two threads, or *)
(* two instances of the application in one working directory.  Nothing in  *)
(* the engine orders their steps.                                          *)
(***************************************************************************)
InitFilesTwo == {File(DataABC, "rw", "utf8"), File(DataFG, "rw", "utf8"),
                 File(DataNoEOL, "rw", "utf8")}

TextsTwo ==
    {<<Prose>>,
     <<Phrase(4, "", 2, 0)>> \o Block(Code(<<"hello">>)),
     <<Phrase(5, "", 9, 0)>> \o Block(Code(<<"x">>)),
     <<Phrase(7, "", 1, 2)>> \o Block(Code(<<"x">>))}

InitTwo ==
    /\ \E fa \in InitFilesTwo, fb \in InitFilesB :
          fs = [q \in Paths |->
                   IF q = Path("a", "m", 0, ".py") THEN fa
                   ELSE IF q = Path("b", "m", 0, ".py") THEN fb
                   ELSE NoFile]
    /\ clock = 0
    /\ linesep = "\n"
    /\ proc = [p \in Procs |-> IdleProc]
    /\ ncalls = 0
    /\ returned = {}

StepTwo(p) ==
    \/ \E f \in TargetPaths, t \in TextsTwo : proc[p].pc = "idle" /\ Call(p, f, t)
    \/ BackupOpenSrc(p)
    \/ BackupOpenDst(p)
    \/ BackupCopy(p)
    \/ Parse(p)
    \/ ReadOriginal(p)
    \/ ApplyChange(p)
    \/ OpenWrite(p)
    \/ WriteLines(p)

NextTwo == (\E p \in Procs : StepTwo(p)) \/ Tick
SpecTwo == InitTwo /\ [][NextTwo]_vars

(***************************************************************************)
(* The claims.                                                             *)
(***************************************************************************)
AnyApplied(r) == \E i \in 1..Len(r.outcomes) : r.outcomes[i].success
Readable(file) == file.exists /\ file.perm # "none" /\ file.enc = "utf8"

\* C1: a call that no exception ends returns success = true if and only if
\* at least one change was applied to the buffer; when every parsed change
\* fails, success is false.
C1_SuccessIffApplied ==
    \A p \in Procs :
        (proc[p].pc = "done" /\ ~proc[p].exc)
        => (proc[p].result.success <=> AnyApplied(proc[p]))

\* C2: on an existing readable file the backup is completely written
\* before the file is opened for writing, and after the call a backup
\* exists whose content equals the content the file had before the call.
C2_BackupIdentical ==
    \A p \in Procs :
        LET r == proc[p] IN
        Readable(r.pre) =>
            /\ r.wopens > 0 => r.bk_done
            /\ r.pc = "done" =>
                  /\ fs[r.backup_path].exists
                  /\ fs[r.backup_path].data = r.pre.data

\* C3: the file is opened for writing at most once per call and only after
\* every change has been processed, and after the call, also one that ends
\* with an I/O failure, its content is either the original content or the
\* fully composed buffer.
C3_NoPartialWrite ==
    \A p \in Procs :
        LET r == proc[p] IN
        /\ r.wopens <= 1
        /\ r.wopens > 0 => Len(r.outcomes) = Len(r.changes)
        /\ r.pc = "done" =>
              \/ fs[r.file_path] = r.pre
              \/ /\ fs[r.file_path].exists
                 /\ fs[r.file_path].data = WriteText(Concat(r.modified_lines), linesep)

\* C4: when no change is found, or changes are found and none applies, the
\* file is not opened for writing and is unchanged, and a backup was written.
C4_UntouchedWhenNothingApplies ==
    \A p \in Procs :
        LET r == proc[p] IN
        (/\ r.pc = "done" /\ r.bk_done
         /\ Len(r.outcomes) = Len(r.changes)
         /\ ~AnyApplied(r))
        => /\ r.wopens = 0
           /\ fs[r.file_path] = r.pre
           /\ fs[r.backup_path].exists

\* C5: when apply_targeted_changes(F, text) returned a backup path,
\* restore_backup(backup_path, F) called afterwards returns true and leaves
\* F with exactly the content it had before apply_targeted_changes.
C5_RestoreRoundTrip ==
    \A p \in Procs :
        LET r == proc[p] IN
        (/\ r.pc = "restored"
         /\ r.result.backup_path # NoPath
         /\ r.r_backup = r.result.backup_path
         /\ r.r_target = r.file_path)
        => /\ r.r_ok
           /\ fs[r.file_path].data = r.pre.data

\* C6: every backup path an earlier call returned still exists: the engine
\* never deletes a backup file.
C6_BackupsNeverDeleted == \A b \in returned : fs[b].exists
\* two calls have returned two different backup paths
C6_Witness == Cardinality(returned) >= 2

\* C7: no exception leaves apply_targeted_changes: after an exception in
\* any step the call returns success = false, no changes, no backup path and
\* an error message.
C7_NoExceptionEscapes ==
    \A p \in Procs :
        LET r == proc[p] IN
        /\ r.pc # "raised"
        /\ r.exc => /\ r.pc \in {"done", "restored"}
                    /\ ~r.result.success
                    /\ r.result.changes_applied = <<>>
                    /\ r.result.backup_path = NoPath
                    /\ r.result.error # ""
\* a call whose write of the file failed has returned
C7_Witness == \E p \in Procs : proc[p].pc = "done" /\ proc[p].exc /\ proc[p].wopens = 1

\* C8: when the file does not exist or cannot be read, the call returns
\* success = false with an error and no backup path, creates no backup file
\* and leaves the path of the file as it was.
C8_UnreadableLeavesNothing ==
    \A p \in Procs :
        LET r == proc[p] IN
        (r.pc = "done" /\ ~Readable(r.pre))
        => /\ ~r.result.success
           /\ r.result.error # ""
           /\ r.result.backup_path = NoPath
           /\ ~r.bk_created
           /\ fs[r.file_path] = r.pre

\* C9: a change that fails does not end the session: the buffer stays what
\* it was, the next change (if any) is processed next, and the file is
\* written only when every change has been processed.
C9_BestEffort ==
    [][\A p \in Procs :
          LET r == proc[p] IN
          (r.pc = "apply" /\ proc'[p] # r)
          => /\ proc'[p].pc = "open_w" => Len(proc'[p].outcomes) = Len(r.changes)
             /\ ~apply_single_change(r.modified_lines, r.changes[r.idx]).success
                => /\ proc'[p].modified_lines = r.modified_lines
                   /\ proc'[p].changes = r.changes
                   /\ proc'[p].idx = r.idx + 1
                   /\ proc'[p].pc = IF r.idx < Len(r.changes) THEN "apply" ELSE "open_w"
                   /\ ~proc'[p].exc]_vars
\* a change failed and the change after it was processed
C9_Witness ==
    \E p \in Procs :
        /\ Len(proc[p].outcomes) >= 2
        /\ ~proc[p].outcomes[1].success

\* C10 as stated: changes_applied holds the result of every change that
\* was processed, failed ones included.
C10_AllOutcomesListed ==
    \A p \in Procs :
        (proc[p].pc = "done" /\ proc[p].result.success)
        => proc[p].result.changes_applied = proc[p].outcomes

IsSuccess(result) == result.success
\* C10 as amended: changes_applied holds, in processing order, the results
\* of exactly the changes that succeeded; the result of a failed change is
\* not listed.
C10_OnlySuccessesListed ==
    \A p \in Procs :
        (proc[p].pc = "done" /\ proc[p].result.success)
        => proc[p].result.changes_applied = SelectSeq(proc[p].outcomes, IsSuccess)
\* a call has returned after one change succeeded and a later one failed
C10_Witness ==
    \E p \in Procs :
        /\ proc[p].pc = "done" /\ proc[p].result.success
        /\ Len(proc[p].outcomes) = 2
        /\ proc[p].outcomes[1].success /\ ~proc[p].outcomes[2].success

\* the text has no line with a triple backtick / no instruction phrase
NoFence(text) ==
    \A i \in 1..Len(text) : \A k \in 1..Len(text[i].toks) : text[i].toks[k].k # "fence"
NoPhrase(text) ==
    \A i \in 1..Len(text) : \A k \in 1..Len(text[i].toks) : text[i].toks[k].k # "pat"

\* C11: when the text has no fenced block or no instruction phrase, a call
\* whose backup step completed returns success = false, no changes, the error
\* 'No valid changes found in AI suggestions' and the path of the backup that
\* was written, and the file is opened neither for reading nor for writing
\* after the backup step.
C11_NoValidChanges ==
    \A p \in Procs :
        LET r == proc[p] IN
        (/\ r.pc \in {"parse", "read", "apply", "open_w", "write", "done"}
         /\ r.bk_done
         /\ (NoFence(r.ai_suggestions) \/ NoPhrase(r.ai_suggestions)))
        => /\ r.ropens = 0 /\ r.wopens = 0 /\ r.writes = 0
           /\ r.pc \in {"parse", "done"}
           /\ r.pc = "done" =>
                 /\ r.result = Result(FALSE, <<>>, r.backup_path,
                                      "No valid changes found in AI suggestions")
                 /\ r.backup_path # NoPath
                 /\ fs[r.backup_path].exists
                 /\ fs[r.file_path] = r.pre
\* a call on a text with a block and no instruction phrase has returned
C11_Witness ==
    \E p \in Procs :
        /\ proc[p].pc = "done" /\ proc[p].bk_done
        /\ ~NoFence(proc[p].ai_suggestions) /\ NoPhrase(proc[p].ai_suggestions)
        /\ proc[p].code_blocks # <<>>

\* the call has parsed its text
Parsed(r) == r.bk_done /\ r.pc \in {"read", "apply", "open_w", "write", "done"}

\* a triple-backtick line: three backticks at the start of the line and an
\* optional language tag, nothing else
IsFenceLine(l) == l.ind = 0 /\ Len(l.toks) = 1 /\ l.toks[1].k = "fence"

RECURSIVE NextFenceLine(_, _)
\* the first triple-backtick line at or after j, 0 if there is none
NextFenceLine(text, j) ==
    IF j > Len(text) THEN 0
    ELSE IF IsFenceLine(text[j]) THEN j
    ELSE NextFenceLine(text, j + 1)

RECURSIVE FencePairs(_, _)
\* the regions between an opening triple-backtick line and the next
\* triple-backtick line, which closes it, from line i on, in document order
FencePairs(text, i) ==
    IF i > Len(text) THEN <<>>
    ELSE IF IsFenceLine(text[i]) /\ NextFenceLine(text, i + 1) # 0
    THEN LET j == NextFenceLine(text, i + 1)
             tag == text[i].toks[1].s
         IN  <<[language |-> IF tag = "" THEN "text" ELSE tag,
                code |-> IF j = i + 1 THEN <<>>
                         ELSE GroupCode(SubSeq(text, i + 1, j - 1))]>>
             \o FencePairs(text, j + 1)
    ELSE FencePairs(text, i + 1)

\* C12: block extraction yields one block per closed pair of triple-backtick
\* lines, in document order, and none for a fence that is never closed; a
\* call on a text whose only fence is never closed returns success = false.
C12_OneBlockPerFencePair ==
    \A p \in Procs :
        LET r == proc[p] IN
        Parsed(r) =>
            /\ r.code_blocks = FencePairs(r.ai_suggestions, 1)
            /\ (FencePairs(r.ai_suggestions, 1) = <<>> /\ r.pc = "done")
                  => ~r.result.success

\* C13: on a buffer of length L a change of line n fails exactly when n < 1
\* or n > L, and a change of lines a-b fails exactly when a < 1 or b > L or
\* a > b; a change that fails returns success = false with an error and the
\* buffer it was given.
C13_RangeValidation ==
    [][\A p \in Procs :
          LET r == proc[p] IN
          (r.pc = "apply" /\ proc'[p] # r)
          => LET ch == r.changes[r.idx]
                 len == Len(r.modified_lines)
                 out == Last(proc'[p].outcomes)
             IN  /\ ch.type = "line_replace"
                      => (~out.success <=> (ch.a < 1 \/ ch.a > len))
                 /\ ch.type = "block_replace"
                      => (~out.success <=> (ch.a < 1 \/ ch.b > len \/ ch.a > ch.b))
                 /\ (ch.type \in {"line_replace", "block_replace"} /\ ~out.success)
                      => /\ out.error # ""
                         /\ out.new_lines = r.modified_lines
                         /\ proc'[p].modified_lines = r.modified_lines]_vars
\* a change of line 0 or of line L + 1 has failed
C13_Witness ==
    \E p \in Procs :
        LET r == proc[p] IN
        /\ Len(r.outcomes) >= 1 /\ ~r.outcomes[1].success
        /\ \/ r.changes[1].type = "line_replace" /\ r.changes[1].a = 0
           \/ r.changes[1].type = "line_replace"
                /\ r.changes[1].a = Len(r.original_lines) + 1

\* the patterns that match somewhere in the text
PatsIn(text) ==
    UNION {{text[i].toks[k].p : k \in 1..Len(text[i].toks)} : i \in 1..Len(text)}
        \cap (1..NumPatterns)
\* the intent of a change
IntentOf(change) == [type |-> change.type, s |-> change.s, a |-> change.a, b |-> change.b]
\* the kinds of phrase in the stated order of priority: function or method,
\* class, single line, range of lines, insert or add
StatedRank(pat) ==
    IF pat \in {1, 2, 3, 11} THEN 1
    ELSE IF pat = 12 THEN 2
    ELSE IF pat \in {4, 5, 6} THEN 3
    ELSE IF pat \in {7, 8} THEN 4
    ELSE 5
StatedKind(rank) ==
    <<"function_replace", "class_replace", "line_replace", "block_replace",
      "insert_after">>[rank]

\* C14 as stated: with phrases of more than one kind in the text (none of
\* them an insert or add phrase), the resolved intent is of the kind that
\* comes first in the order function or method, class, line, range of lines.
C14_KindPriority ==
    \A p \in Procs :
        LET r == proc[p]
            pats == PatsIn(r.ai_suggestions)
        IN  (Parsed(r) /\ r.changes # <<>> /\ pats \cap {9, 10} = {})
            => \E m \in pats :
                  /\ \A q \in pats : StatedRank(m) <= StatedRank(q)
                  /\ r.changes[1].type = StatedKind(StatedRank(m))

\* C14 as amended: the resolved intent is the one of the first pattern, in
\* the order of the pattern list (function, line, range of lines, add or
\* insert, method, class), that matches somewhere in the text.
C14_PatternListOrder ==
    \A p \in Procs :
        LET r == proc[p]
            pats == PatsIn(r.ai_suggestions)
        IN  (Parsed(r) /\ r.changes # <<>>)
            => \E m \in pats :
                  /\ \A q \in pats : m <= q
                  /\ \A i \in 1..Len(r.changes) :
                        IntentOf(r.changes[i]) = ContextOf(m, Search(r.ai_suggestions, m))
\* a text with a class phrase and a line phrase was resolved to a change of
\* that line
C14_Witness ==
    \E p \in Procs :
        LET r == proc[p] IN
        /\ Parsed(r) /\ r.changes # <<>>
        /\ {4, 12} \subseteq PatsIn(r.ai_suggestions)
        /\ IntentOf(r.changes[1]) = [type |-> "line_replace", s |-> "", a |-> 2, b |-> 0]

\* C15: a text whose only phrase is 'insert after line N' or 'add after
\* line N', with a block, resolves to the intent to insert after line N, and
\* applying it puts the code after line N and keeps every original line.
C15_InsertAfterResolved ==
    \A p \in Procs :
        LET r == proc[p]
            pats == PatsIn(r.ai_suggestions)
        IN  (Parsed(r) /\ pats # {} /\ pats \subseteq {9, 10} /\ r.code_blocks # <<>>)
            => \E m \in pats :
                  LET n == Search(r.ai_suggestions, m).a IN
                  /\ r.changes # <<>>
                  /\ IntentOf(r.changes[1])
                        = [type |-> "insert_after", s |-> "", a |-> n, b |-> 0]
                  /\ (Len(r.outcomes) >= 1 /\ r.outcomes[1].success)
                        => r.outcomes[1].new_lines
                             = Slice(r.original_lines, 1, n)
                               \o splitlines(r.changes[1].new_code)
                               \o Slice(r.original_lines, n + 1, Len(r.original_lines))

\* C16: for a text with k >= 1 extracted blocks the changes are none (no
\* pattern matches) or exactly k, in the order of the blocks, each with the
\* code and language of its block and all with the same intent.
C16_SameIntentForEveryBlock ==
    \A p \in Procs :
        LET r == proc[p]
            k == Len(r.code_blocks)
        IN  (Parsed(r) /\ k >= 1)
            => /\ Len(r.changes) \in {0, k}
               /\ Len(r.changes) = 0 <=> PatsIn(r.ai_suggestions) = {}
               /\ \A i \in 1..Len(r.changes) :
                     /\ r.changes[i].new_code = r.code_blocks[i].code
                     /\ r.changes[i].language = r.code_blocks[i].language
                     /\ IntentOf(r.changes[i]) = IntentOf(r.changes[1])
\* three blocks gave three changes with different codes
C16_Witness ==
    \E p \in Procs :
        LET r == proc[p] IN
        /\ Parsed(r) /\ Len(r.code_blocks) = 3 /\ Len(r.changes) = 3
        /\ r.changes[1].new_code # r.changes[2].new_code
        /\ r.changes[2].new_code # r.changes[3].new_code

\* the text is one 'change line n to:' phrase followed by one fenced block
IsChangeLineText(text) ==
    /\ Len(text) >= 4
    /\ text[1].toks = <<Pat(4, "", text[1].toks[1].a, 0)>>
    /\ text[2] = FenceLine /\ Last(text) = FenceLine
    /\ \A i \in 3..(Len(text) - 1) : NoFence(<<text[i]>>) /\ NoPhrase(<<text[i]>>)

\* C17: for the text 'change line n to:' followed by one block with code c
\* and a buffer of L lines with 1 <= n <= L, the one change is the
\* replacement of line n by c, and the resulting buffer has L elements,
\* element n being c without its trailing whitespace plus a newline and
\* every other element the original one.
C17_LineReplaceEndToEnd ==
    \A p \in Procs :
        LET r == proc[p]
            text == r.ai_suggestions
            n == text[1].toks[1].a
            c == GroupCode(SubSeq(text, 3, Len(text) - 1))
            len == Len(r.original_lines)
        IN  (/\ Parsed(r) /\ r.pc \in {"open_w", "write", "done"} /\ ~r.exc
             /\ IsChangeLineText(text)
             /\ 1 <= n /\ n <= len)
            => /\ r.changes = <<[type |-> "line_replace", s |-> "", a |-> n, b |-> 0,
                                 new_code |-> c, language |-> "text"]>>
               /\ Len(r.outcomes) = 1 /\ r.outcomes[1].success
               /\ Len(r.modified_lines) = len
               /\ r.modified_lines[n] = AppendNL(rstrip(c))
               /\ \A i \in (1..len) \ {n} : r.modified_lines[i] = r.original_lines[i]
\* 'Change line 2 to:' with the block 'hello' over [a, b, c] gave [a, hello, c]
C17_Witness ==
    \E p \in Procs :
        LET r == proc[p] IN
        /\ r.pc = "done" /\ r.result.success
        /\ r.ai_suggestions = <<Phrase(4, "", 2, 0)>> \o Block(Code(<<"hello">>))
        /\ r.original_lines = splitlines(Code(<<"a", "b", "c">>))
        /\ r.modified_lines = splitlines(Code(<<"a", "hello", "c">>))

\* C18: the replacement of a function replaces the lines from the first
\* header of that name (indentation i) up to, not including, the first later
\* line that is not blank and is indented by at most i, or up to the end of
\* the buffer; blank lines never end the span; the lines before the header
\* and from the terminator on are kept, in order.
C18_FunctionSpan ==
    [][\A p \in Procs :
          LET r == proc[p] IN
          (/\ r.pc = "apply" /\ proc'[p] # r
           /\ r.changes[r.idx].type = "function_replace"
           /\ Last(proc'[p].outcomes).success)
          => LET ch == r.changes[r.idx]
                 lines == r.modified_lines
                 len == Len(lines)
                 out == Last(proc'[p].outcomes)
             IN  \E i \in 1..len, t \in 2..(len + 1) :
                    /\ IsDefHeader(lines[i], ch.s)
                    /\ \A j \in 1..(i - 1) : ~IsDefHeader(lines[j], ch.s)
                    /\ t > i
                    /\ \A j \in (i + 1)..(t - 1) :
                          IsBlank(lines[j]) \/ LeadWS(lines[j]) > LeadWS(lines[i])
                    /\ t <= len => /\ ~IsBlank(lines[t])
                                   /\ LeadWS(lines[t]) <= LeadWS(lines[i])
                    /\ out.new_lines = Slice(lines, 1, i - 1)
                                         \o splitlines(ch.new_code)
                                         \o Slice(lines, t, len)
                    /\ proc'[p].modified_lines = out.new_lines]_vars
\* [def f, pass, blank, def g, pass] with the code 'def f / return 1' gave
\* [def f, return 1, def g, pass]
C18_Witness ==
    \E p \in Procs :
        LET r == proc[p] IN
        /\ r.pc = "open_w"
        /\ r.changes # <<>> /\ r.changes[1].type = "function_replace"
        /\ r.original_lines = splitlines(DataFG)
        /\ r.modified_lines = <<<<L(0, <<Def("f")>>)>>,
                                 <<Line(4, <<W("return 1")>>, "")>>,
                                 <<L(0, <<Def("g")>>)>>,
                                 <<L(4, <<W("pass")>>)>>>>

\* C20: restore_backup from a backup that is another file than the target
\* returns true only after the target holds the full text of the backup, and
\* when the backup does not exist or cannot be read it returns false and the
\* target is neither created, truncated nor modified.
C20_RestoreAllOrNothing ==
    \A p \in Procs :
        LET r == proc[p] IN
        (r.pc = "restored" /\ r.r_backup # r.r_target) =>
            /\ r.r_ok => /\ fs[r.r_target].exists
                         /\ ReadText(fs[r.r_target].data) = ReadText(r.r_pre_backup.data)
            /\ ~Readable(r.r_pre_backup)
                  => ~r.r_ok /\ fs[r.r_target] = r.r_pre_target

\* C22: within one call the changes are resolved before the file is read
\* and before any change is applied, and the list of changes with its line
\* numbers stays what it was for the rest of the call, also after a change
\* has altered the length of the buffer.
C22_ChangesFixedBeforeEdits ==
    [][\A p \in Procs :
          LET r == proc[p] IN
          /\ (r.pc = "parse" /\ proc'[p] # r)
                => /\ r.ropens = 0 /\ r.original_lines = <<>> /\ r.outcomes = <<>>
                   /\ proc'[p].ropens = 0 /\ proc'[p].outcomes = <<>>
          /\ (r.pc \in {"read", "apply", "open_w", "write"})
                => proc'[p].changes = r.changes]_vars
\* a change has shortened or lengthened the buffer and another one follows
C22_Witness ==
    \E p \in Procs :
        LET r == proc[p] IN
        /\ r.pc = "apply" /\ Len(r.outcomes) = 1 /\ Len(r.changes) >= 2
        /\ r.outcomes[1].success
        /\ Len(r.modified_lines) # Len(r.original_lines)

\* the greatest element of a non-empty set of numbers
Max(S) == CHOOSE x \in S : \A y \in S : y <= x
\* the buffer before change k: the output of the last change before it that
\* succeeded, the lines read from the file if there is none
BufferBefore(r, k) ==
    LET S == {j \in 1..(k - 1) : r.outcomes[j].success}
    IN  IF S = {} THEN r.original_lines ELSE r.outcomes[Max(S)].new_lines

C24_BlockReplaceResult ==
    [][\A p \in Procs :
          LET r == proc[p] IN
          (/\ r.pc = "apply" /\ proc'[p] # r
           /\ r.changes[r.idx].type = "block_replace"
           /\ 1 <= r.changes[r.idx].a
           /\ r.changes[r.idx].a <= r.changes[r.idx].b
           /\ r.changes[r.idx].b <= Len(r.modified_lines))
          => LET a == r.changes[r.idx].a
                 b == r.changes[r.idx].b
                 lines == r.modified_lines
                 len == Len(lines)
                 k == Len(r.changes[r.idx].new_code)
                 new == proc'[p].modified_lines
             IN  /\ Last(proc'[p].outcomes).success
                 /\ Len(new) = len - (b - a + 1) + k
                 /\ \A i \in 1..(a - 1) : new[i] = lines[i]
                 /\ \A i \in 1..k : new[a - 1 + i] = <<r.changes[r.idx].new_code[i]>>
                 /\ \A i \in (b + 1)..len : new[i - (b - a + 1) + k] = lines[i]]_vars
\* lines 2-3 of a buffer of five lines were replaced by one line
C24_Witness ==
    \E p \in Procs :
        LET r == proc[p] IN
        /\ Len(r.outcomes) = 1 /\ r.outcomes[1].success
        /\ r.changes[1].type = "block_replace"
        /\ r.changes[1].a = 2 /\ r.changes[1].b = 3
        /\ Len(r.original_lines) = 5 /\ Len(r.modified_lines) = 4

\* C25: the insertion after line n in a buffer of L lines succeeds exactly
\* when 1 <= n <= L and then gives the lines up to n, the lines of the new
\* code and the lines after n, removing none; with n < 1 or n > L it fails
\* and returns the buffer as it was, so nothing is inserted before line 1 or
\* into an empty buffer.
C25_InsertAfterResult ==
    \A p \in Procs :
        LET r == proc[p] IN
        (r.pc = "applied" /\ r.changes[1].type = "insert_after")
        => LET n == r.changes[1].a
               lines == r.original_lines
               len == Len(lines)
               k == Len(r.changes[1].new_code)
               out == r.outcomes[1]
           IN  /\ out.success <=> (1 <= n /\ n <= len)
               /\ out.success
                    => /\ Len(out.new_lines) = len + k
                       /\ \A i \in 1..n : out.new_lines[i] = lines[i]
                       /\ \A i \in 1..k :
                             out.new_lines[n + i] = <<r.changes[1].new_code[i]>>
                       /\ \A i \in (n + 1)..len : out.new_lines[i + k] = lines[i]
               /\ ~out.success => out.error # "" /\ out.new_lines = lines
               /\ len = 0 => ~out.success
\* two lines were inserted after line 1 of [a, b, c]
C25_Witness ==
    \E p \in Procs :
        LET r == proc[p] IN
        /\ r.pc = "applied" /\ r.changes[1].type = "insert_after"
        /\ r.changes[1].a = 1 /\ r.outcomes[1].success
        /\ r.original_lines = readlines(DataABC)
        /\ Len(r.outcomes[1].new_lines) = 5

\* line i of the buffer is a header of the kind ("def" or "class") for
\* exactly this name
HeaderFor(lines, i, kind, name) ==
    FirstTok(lines[i]).k = kind /\ FirstTok(lines[i]).s = name

\* C26: the replacement of a function or of a class fails with a 'not
\* found' error and the buffer as it was when no line is a header for exactly
\* that name; else it replaces the span of the topmost such header only, and
\* the span of a class follows the rule of the span of a function: up to the
\* first later line that is not blank and indented by at most the header's
\* indentation, or to the end of the buffer.
C26_ReplaceByName ==
    \A p \in Procs :
        LET r == proc[p] IN
        (r.pc = "applied" /\ r.changes[1].type \in {"function_replace", "class_replace"})
        => LET ch == r.changes[1]
               kind == IF ch.type = "function_replace" THEN "def" ELSE "class"
               lines == r.original_lines
               len == Len(lines)
               out == r.outcomes[1]
           IN  IF \A i \in 1..len : ~HeaderFor(lines, i, kind, ch.s)
               THEN /\ ~out.success
                    /\ out.error = (IF kind = "def" THEN "Function not found"
                                    ELSE "Class not found")
                    /\ out.new_lines = lines
               ELSE /\ out.success
                    /\ \E i \in 1..len, t \in 2..(len + 1) :
                          /\ HeaderFor(lines, i, kind, ch.s)
                          /\ \A j \in 1..(i - 1) : ~HeaderFor(lines, j, kind, ch.s)
                          /\ t > i
                          /\ \A j \in (i + 1)..(t - 1) :
                                IsBlank(lines[j]) \/ LeadWS(lines[j]) > LeadWS(lines[i])
                          /\ t <= len => /\ ~IsBlank(lines[t])
                                         /\ LeadWS(lines[t]) <= LeadWS(lines[i])
                          /\ out.new_lines = Slice(lines, 1, i - 1)
                                               \o splitlines(ch.new_code)
                                               \o Slice(lines, t, len)
\* of two classes C the topmost was replaced, with the blank line after it
C26_Witness ==
    \E p \in Procs :
        LET r == proc[p] IN
        /\ r.pc = "applied" /\ r.changes[1].type = "class_replace"
        /\ r.original_lines = readlines(DataTwice)
        /\ r.outcomes[1].success
        /\ r.outcomes[1].new_lines
             = SubSeq(r.original_lines, 1, 4) \o splitlines(r.changes[1].new_code)
               \o SubSeq(r.original_lines, 8, 9)

\* an element of the buffer that holds exactly one line, terminator at its end
OneLine(el) == Len(el) = 1 /\ el[1].e = "\n"

\* C28: when every line read from the file ends with a newline, every
\* element of the buffer holds exactly one line with its newline, whatever
\* changes from fenced blocks have been applied: the code spliced in is not
\* joined with the line that follows it.
C28_BufferWellFormed ==
    \A p \in Procs :
        LET r == proc[p] IN
        (/\ Parsed(r)
         /\ \A i \in 1..Len(r.original_lines) : OneLine(r.original_lines[i]))
        => \A i \in 1..Len(r.modified_lines) : OneLine(r.modified_lines[i])

\* C29: a call that returns no backup path has not written a backup file:
\* every backup that a call wrote to its end is reported by the call's
\* backup_path, also when a later read or write of the file fails.
C29_NoPathNoBackupFile ==
    \A p \in Procs :
        LET r == proc[p] IN
        (r.pc = "done" /\ r.result.backup_path = NoPath) => ~r.bk_done

\* C30: for the same file content and the same text, the buffer that
\* preview_ai_changes builds is the buffer that apply_targeted_changes
\* writes, and the preview shows a diff exactly when the call reports
\* success (it reports that nothing could be applied exactly when the call
\* does not).
C30_PreviewAgreesWithApply ==
    \A p \in Procs :
        LET r == proc[p] IN
        (/\ r.pc = "done" /\ ~r.exc
         /\ r.pv_report # "" /\ r.pv_pre = r.pre)
        => /\ r.result.success => r.pv_modified = r.modified_lines
           /\ r.pv_report # "diff" <=> ~r.result.success

\* C21: when two invocations on the same path have both written the file
\* and returned, the file holds the buffer that one of them composed, the
\* one that wrote last, from the lines it had read itself.
C21_LastWriterWins ==
    \A p, q \in Procs :
        (/\ p # q
         /\ proc[p].pc = "done" /\ proc[q].pc = "done"
         /\ proc[p].file_path = proc[q].file_path
         /\ proc[p].writes = 1 /\ proc[q].writes = 1)
        => \E w \in {p, q} :
              /\ fs[proc[w].file_path].data = WriteText(Concat(proc[w].modified_lines), linesep)
              /\ proc[w].modified_lines = BufferBefore(proc[w], Len(proc[w].outcomes) + 1)

\* C27: the backup path is made of the stem, the suffix and the second, so
\* two invocations on files of the same name that make their backups in the
\* same second write one path; when both have written it, the path holds the
\* content of the invocation that wrote later, not the other one's.
C27_LaterBackupReplacesEarlier ==
    \A p, q \in Procs :
        (/\ p # q
         /\ proc[p].bk_done /\ proc[q].bk_done
         /\ proc[p].file_path # proc[q].file_path
         /\ proc[p].file_path.stem = proc[q].file_path.stem
         /\ proc[p].file_path.suffix = proc[q].file_path.suffix
         /\ proc[p].backup_path.ts = proc[q].backup_path.ts)
        => /\ proc[p].backup_path = proc[q].backup_path
           /\ \E w \in {p, q} :
                 fs[proc[w].backup_path].data
                   = WriteText(ReadText(proc[w].pre.data), linesep)

====
